---------------------------- MODULE Spec2Model ----------------------------
(***************************************************************************)
(* Retrieval engine of git_rag: query understanding, query expansion,      *)
(* multi-query fetch, deduplication, reranking (app/rag/retrieve.py), the  *)
(* intent classifier and the lazily loaded language model of answer        *)
(* generation (app/rag/answer.py), the lazily loaded vector index          *)
(* (app/rag/vectorstore.py) and the API process with its /chat handler     *)
(* (app/api/main.py).                                                      *)
(*                                                                         *)
(* Text is modelled by TLA+ strings; Python's None by the empty tuple and  *)
(* a present optional value v by <<v>>.                                    *)
(***************************************************************************)
EXTENDS Integers, Sequences, FiniteSets, TLC

VARIABLES
    \* --- one retrieve_documents call (retrieve.py:139-158) ---
    pc,            \* position of the call: "idle", "fetch", "done", "raised"
    query,         \* argument query
    k,             \* argument k
    vs_arg,        \* argument vectorstore (None or a handle)
    vs_local,      \* local vectorstore after line 140
    intent,        \* local intent (line 142)
    expanded,      \* local expanded_queries (line 143)
    qi,            \* number of expanded queries already searched
    searches,      \* searches issued so far: <<[index, q, k, lambda_mult]>>
    hits,          \* local hits: what the latest search returned (line 148)
    all_results,   \* local all_results
    unique,        \* local unique (line 155)
    reranked,      \* local reranked (line 156)
    result,        \* returned list (line 158)
    error,         \* exception that left the call: None or Some(name)
    \* --- pure query functions applied to one question ---
    question,      \* the question under classification
    r_intent,      \* retrieve.detect_intent(question) once computed
    a_intent,      \* answer.detect_intent(question) once computed
    command,       \* extract_git_command(question) once computed
    expansion,     \* expand_query(question) once computed
    \* --- module globals of vectorstore.py and load_vectorstore callers ---
    g_VECTORSTORE,      \* global _VECTORSTORE (vectorstore.py:47)
    g_VECTORSTORE_LOCK, \* global _VECTORSTORE_LOCK (vectorstore.py:48)
    g_EMBEDDINGS,  \* global _EMBEDDINGS (vectorstore.py:46)
    held,          \* lock object -> None if free, else Some(thread holding it)
    loads,         \* number of FAISS.load_local calls so far
    tpc,           \* thread -> line of load_vectorstore it is at, or "idle",
                   \*   "done" (returned), "unwind", "raised" (exception left)
    tlock,         \* thread -> lock object its with-statement evaluated
    tnew,          \* thread -> handle it constructed, not yet published
    tret,          \* thread -> value its load_vectorstore call returned
    \* --- module global of answer.py and get_llm callers ---
    g_llm_instance,     \* global _llm_instance (answer.py:15)
    llm_loads,     \* number of model pipelines constructed so far
    lpc,           \* thread -> line of get_llm it is at
    lnew,          \* thread -> pipeline it constructed (local hf_pipeline)
    lret,          \* thread -> value its get_llm call returned
    \* --- the API process (main.py) and its /chat requests ---
    apc,           \* "init" before startup_event has run, then "up"
    VECTORSTORE,   \* global VECTORSTORE of main.py (line 22)
    cpc,           \* thread -> line of chat it is at, "idle" between requests
    cquestion,     \* thread -> req.question of its request
    cintent,       \* thread -> local intent of chat (line 82)
    cinvoked,      \* thread -> functions chat has called for its request
    cstatus,       \* thread -> HTTP status of its response, None before it
    cdetail,       \* thread -> detail of an error response
    served         \* number of /chat requests answered so far

retrieveVars == <<pc, query, k, vs_arg, vs_local, intent, expanded, qi,
                  searches, hits, all_results, unique, reranked, result,
                  error>>
queryVars == <<question, r_intent, a_intent, command, expansion>>
loadVars == <<g_VECTORSTORE, g_VECTORSTORE_LOCK, g_EMBEDDINGS, held, loads, tpc, tlock, tnew, tret>>
llmVars == <<g_llm_instance, llm_loads, lpc, lnew, lret>>
apiVars == <<apc, VECTORSTORE, cpc, cquestion, cintent, cinvoked, cstatus,
             cdetail, served>>
vars == <<retrieveVars, queryVars, loadVars, llmVars, apiVars>>

-----------------------------------------------------------------------------
(* Bounds of the model *)

\* longest question of the pure-function specification, in vocabulary phrases
MaxWords == 2
\* most passages one search returns here (the index may return up to k)
MaxHits == 2
\* most passages all searches of one call return together
MaxPool == 3
\* largest k a caller passes
MaxK == 2
\* number of threads calling load_vectorstore concurrently
NumThreads == 2
\* number of /chat requests the API process answers
MaxRequests == 3

-----------------------------------------------------------------------------
(* Python values *)

None == <<>>
Some(v) == <<v>>

\* x or ""  for an optional string
OrEmpty(x) == IF x = None THEN "" ELSE x[1]

\* dict.get(key) on a metadata dict (a function from its keys)
Get(metadata, key) ==
    IF key \in DOMAIN metadata THEN Some(metadata[key]) ELSE None

CharAt(s, i) == SubSeq(s, i, i)

\* t in s  (substring test; the empty string is in every string)
Contains(s, t) ==
    \E i \in 1..(Len(s) - Len(t) + 1) : SubSeq(s, i, i + Len(t) - 1) = t

\* s.startswith(t)
StartsWith(s, t) == Len(s) >= Len(t) /\ SubSeq(s, 1, Len(t)) = t

\* the lower-case letter of each upper-case letter
LowerOf ==
    [A |-> "a", B |-> "b", C |-> "c", D |-> "d", E |-> "e", F |-> "f", G |-> "g",
     H |-> "h", I |-> "i", J |-> "j", K |-> "k", L |-> "l", M |-> "m", N |-> "n",
     O |-> "o", P |-> "p", Q |-> "q", R |-> "r", S |-> "s", T |-> "t", U |-> "u",
     V |-> "v", W |-> "w", X |-> "x", Y |-> "y", Z |-> "z"]

\* the upper-case letter of each lower-case letter
UpperOf ==
    [a |-> "A", b |-> "B", c |-> "C", d |-> "D", e |-> "E", f |-> "F", g |-> "G",
     h |-> "H", i |-> "I", j |-> "J", k |-> "K", l |-> "L", m |-> "M", n |-> "N",
     o |-> "O", p |-> "P", q |-> "Q", r |-> "R", s |-> "S", t |-> "T", u |-> "U",
     v |-> "V", w |-> "W", x |-> "X", y |-> "Y", z |-> "Z"]

MapChar(c, table) == IF c \in DOMAIN table THEN table[c] ELSE c

RECURSIVE MapString(_, _)
MapString(s, table) ==
    IF Len(s) = 0 THEN ""
    ELSE MapChar(CharAt(s, 1), table) \o MapString(SubSeq(s, 2, Len(s)), table)

\* str.lower() and str.upper() on ASCII text
Lower(s) == MapString(s, LowerOf)
Upper(s) == MapString(s, UpperOf)

\* the regex classes \s, [a-z\-] and \w (on ASCII text)
SpaceChars == {" ", "\t", "\n", "\r", "\f"}
CommandChars == DOMAIN UpperOf \cup {"-"}
WordChars ==
    DOMAIN UpperOf \cup DOMAIN LowerOf
    \cup {"0", "1", "2", "3", "4", "5", "6", "7", "8", "9", "_"}

\* last position of the longest run of characters of the class chars that
\* starts at position i of s (i - 1 when the run is empty): a greedy x+
RunEnd(s, i, chars) ==
    CHOOSE j \in (i - 1)..Len(s) :
        /\ \A m \in i..j : CharAt(s, m) \in chars
        /\ (j = Len(s) \/ CharAt(s, j + 1) \notin chars)

\* FromKeys without the removal of duplicates
FromKeysNoDedup(xs) == xs

\* list(dict.fromkeys(xs)): first occurrences, in order
RECURSIVE FromKeys(_)
FromKeys(xs) ==
    IF xs = <<>> THEN <<>>
    ELSE LET init == FromKeys(SubSeq(xs, 1, Len(xs) - 1))
             last == xs[Len(xs)]
         IN IF \E i \in 1..Len(init) : init[i] = last
            THEN init ELSE Append(init, last)

-----------------------------------------------------------------------------
(* Retrieval settings (retrieve.py:9-20) *)

SEARCH_K_PER_QUERY == 6
FINAL_TOP_K == 6
\* 0.7 as the fraction 7/10
MMR_LAMBDA == <<7, 10>>

INTENT_SECTION_PRIORITY ==
    [DEFINITION |-> <<"NAME", "INTRO">>,
     HOW        |-> <<"DESCRIPTION", "OPTIONS", "EXAMPLES">>,
     WHY        |-> <<"NOTES", "DESCRIPTION">>,
     COMPARE    |-> <<"DESCRIPTION", "NOTES">>,
     GENERAL    |-> <<"DESCRIPTION", "INTRO", "OPTIONS">>]

\* INTENT_SECTION_PRIORITY.get(intent, [])
SectionPriority(i) ==
    IF i \in DOMAIN INTENT_SECTION_PRIORITY THEN INTENT_SECTION_PRIORITY[i] ELSE <<>>

-----------------------------------------------------------------------------
(* Query understanding (retrieve.py:27-44, answer.py:48-60) *)

\* positions where  git\s+([a-z\-]+)  matches in q
GitMatchAt(q, i) ==
    /\ i + 4 <= Len(q)
    /\ SubSeq(q, i, i + 2) = "git"
    /\ CharAt(q, i + 3) \in SpaceChars
    /\ LET ws == RunEnd(q, i + 3, SpaceChars)
       IN ws < Len(q) /\ CharAt(q, ws + 1) \in CommandChars

\* re.search(r"git\s+([a-z\-]+)", query.lower()): group 1 of the leftmost
\* match, or None
extract_git_command(qry) ==
    LET q == Lower(qry)
        at == {i \in 1..Len(q) : GitMatchAt(q, i)}
    IN IF at = {} THEN None
       ELSE LET i == CHOOSE i \in at : \A j \in at : i <= j
                start == RunEnd(q, i + 3, SpaceChars) + 1
            IN Some(SubSeq(q, start, RunEnd(q, start, CommandChars)))

AnyIn(q, ws) == \E w \in ws : Contains(q, w)

\* retrieve.detect_intent
detect_intent(qry) ==
    LET q == Lower(qry)
    IN IF AnyIn(q, {"what is", "what does", "define", "meaning of"}) THEN "DEFINITION"
       ELSE IF AnyIn(q, {"how", "how to", "works", "do i"}) THEN "HOW"
       ELSE IF AnyIn(q, {"why", "when", "should"}) THEN "WHY"
       ELSE IF AnyIn(q, {"difference", "compare", "vs"}) THEN "COMPARE"
       ELSE "GENERAL"

\* answer.detect_intent
answer_detect_intent(qstn) ==
    LET q == Lower(qstn)
    IN IF AnyIn(q, {"difference", "compare", "vs"}) THEN "comparison"
       ELSE IF StartsWith(q, "why") THEN "reasoning"
       ELSE IF StartsWith(q, "how") THEN "procedural"
       ELSE IF StartsWith(q, "what") THEN "definition"
       ELSE "general"

-----------------------------------------------------------------------------
(* Query expansion (retrieve.py:51-69) *)

\* SectionVariants going through the sections from the last to the first
RECURSIVE SectionVariantsReversed(_, _)
SectionVariantsReversed(cmd, sections) ==
    IF sections = <<>> THEN <<>>
    ELSE SectionVariantsReversed(cmd, Tail(sections))
         \o <<"Git Command: " \o cmd \o " Section: " \o Head(sections)>>

\* lines 61-62: one targeted variant per section, in the order of the list
RECURSIVE SectionVariants(_, _)
SectionVariants(cmd, sections) ==
    IF sections = <<>> THEN <<>>
    ELSE <<"Git Command: " \o cmd \o " Section: " \o Head(sections)>>
         \o SectionVariants(cmd, Tail(sections))

\* expand_query_raw with the lower-cased question as the first entry
expand_query_raw_lowered(qry) ==
    LET cmd == extract_git_command(qry)
        int == detect_intent(qry)
    IN IF cmd # None /\ cmd[1] # ""
       THEN <<Lower(qry), "git " \o cmd[1], "Git Command: " \o cmd[1]>>
            \o SectionVariants(cmd[1], SectionPriority(int))
       ELSE <<Lower(qry), "Git version control system",
              "Git distributed version control">>

\* expand_query_raw adding nothing when no command is found
expand_query_raw_no_fallback(qry) ==
    LET cmd == extract_git_command(qry)
        int == detect_intent(qry)
    IN IF cmd # None /\ cmd[1] # ""
       THEN <<qry, "git " \o cmd[1], "Git Command: " \o cmd[1]>>
            \o SectionVariants(cmd[1], SectionPriority(int))
       ELSE <<qry>>

\* the list expanded as built by lines 52-67, before line 69
expand_query_raw(qry) ==
    LET cmd == extract_git_command(qry)
        int == detect_intent(qry)
    IN IF cmd # None /\ cmd[1] # ""
       THEN <<qry, "git " \o cmd[1], "Git Command: " \o cmd[1]>>
            \o SectionVariants(cmd[1], SectionPriority(int))
       ELSE <<qry, "Git version control system", "Git distributed version control">>

expand_query(qry) == FromKeys(expand_query_raw(qry))

-----------------------------------------------------------------------------
(* Passages *)

\* A Document: page_content is its text; padding counts further characters
\* of the text that are no word characters (blank filler), so that
\* len(doc.page_content) = Len(page_content) + padding and no query token
\* occurs in the filler.  metadata is the dict, a function from its keys.
Document(content, pad, md) == [page_content |-> content, padding |-> pad, metadata |-> md]

ContentLength(doc) == Len(doc.page_content) + doc.padding

\* the passages the index holds in this model; command is the manual page's
\* name with spaces for hyphens, as extract_command_name writes it
\* (ingest.py:46-58), section the section title of ingest.py:146, and
\* section_index and sub_chunk_index what build_chunks adds (chunk.py:161-162);
\* no code of the repository writes a chunk_index
DocRebase ==
    Document("reapply commits on top of another base", 0,
             [command |-> "git rebase", section |-> "DESCRIPTION",
              section_index |-> 1, sub_chunk_index |-> 1])
\* the next part of the same section, which build_chunks split in two
DocRebasePart2 ==
    Document("git rebase: reapply commits", 0,
             [command |-> "git rebase", section |-> "DESCRIPTION",
              section_index |-> 1, sub_chunk_index |-> 2])
\* a passage with a lower-case section label
DocMerge ==
    Document("merge joins two git histories", 0,
             [command |-> "git merge", section |-> "description",
              section_index |-> 1, sub_chunk_index |-> 1])
\* a long passage with none of the metadata fields
DocBare == Document("what a branch is", 1600, [source |-> "unknown.txt"])

Corpus == {DocRebase, DocRebasePart2, DocMerge, DocBare}

-----------------------------------------------------------------------------
(* Deduplication (retrieve.py:76-90) *)

DedupKey(doc) ==
    <<Get(doc.metadata, "command"), Get(doc.metadata, "section"),
      Get(doc.metadata, "chunk_index")>>

\* DedupStep with the later passage of a key replacing the earlier one
DedupStepKeepLast(acc, doc) ==
    IF DedupKey(doc) \notin acc[1]
    THEN <<acc[1] \cup {DedupKey(doc)}, Append(acc[2], doc)>>
    ELSE <<acc[1],
           [i \in 1..Len(acc[2]) |->
               IF DedupKey(acc[2][i]) = DedupKey(doc) THEN doc ELSE acc[2][i]]>>

\* DedupStep with the membership test inverted
DedupStepInverted(acc, doc) ==
    IF DedupKey(doc) \in acc[1]
    THEN <<acc[1], Append(acc[2], doc)>>
    ELSE <<acc[1] \cup {DedupKey(doc)}, acc[2]>>

\* one iteration of the loop body (lines 81-88) on the pair <<seen, unique>>
DedupStep(acc, doc) ==
    IF DedupKey(doc) \notin acc[1]
    THEN <<acc[1] \cup {DedupKey(doc)}, Append(acc[2], doc)>>
    ELSE acc

RECURSIVE DedupLoop(_, _)
DedupLoop(acc, docs) ==
    IF docs = <<>> THEN acc ELSE DedupLoop(DedupStep(acc, Head(docs)), Tail(docs))

deduplicate_documents(docs) == DedupLoop(<<{}, <<>>>>, docs)[2]

-----------------------------------------------------------------------------
(* Reranking (retrieve.py:97-132) *)

\* set(re.findall(r"\w+", s)): the maximal runs of word characters of s
WordTokens(s) ==
    {SubSeq(s, i, RunEnd(s, i, WordChars)) :
        i \in {j \in 1..Len(s) : /\ CharAt(s, j) \in WordChars
                                 /\ (j = 1 \/ CharAt(s, j - 1) \notin WordChars)}}

LongChunkThreshold == 1500

Max(a, b) == IF a >= b THEN a ELSE b
Min(a, b) == IF a <= b THEN a ELSE b

\* lines 118-120: if any(t in cmd for t in qtokens): score += 10
SubjectBonus(cmd, qtokens) ==
    IF \E t \in qtokens : Contains(cmd, t) THEN 10 ELSE 0

\* the score of lines 104-127 for the passage at 0-based position idx, given
\* qtokens and preferred_sections of lines 98-99
Score(doc, idx, qtokens, preferred_sections) ==
    LET cmd == Lower(OrEmpty(Get(doc.metadata, "command")))
        sec == Upper(OrEmpty(Get(doc.metadata, "section")))
        content == Lower(doc.page_content)
    IN Max(0, 20 - idx)
       + (IF \E i \in 1..Len(preferred_sections) : preferred_sections[i] = sec
          THEN 15 ELSE 0)
       + SubjectBonus(cmd, qtokens)
       + Cardinality({t \in qtokens : Contains(content, t)})
       - (IF ContentLength(doc) > LongChunkThreshold THEN 5 ELSE 0)

\* the list scored of lines 98-129: <<score, doc>> pairs in input order
Scored(results, qry, int) ==
    LET qtokens == WordTokens(Lower(qry))
        preferred_sections == SectionPriority(int)
    IN [i \in 1..Len(results) |->
           <<Score(results[i], i - 1, qtokens, preferred_sections), results[i]>>]

\* SortByScoreDesc with equal scores coming out in reverse input order, as
\* an ascending sort followed by a reversal gives
RECURSIVE SortThenReverse(_)
SortThenReverse(scored) ==
    IF scored = <<>> THEN <<>>
    ELSE LET init == SortThenReverse(SubSeq(scored, 1, Len(scored) - 1))
             last == scored[Len(scored)]
             n == Cardinality({i \in 1..Len(init) : init[i][1] > last[1]})
         IN SubSeq(init, 1, n) \o <<last>> \o SubSeq(init, n + 1, Len(init))

\* list.sort(key=lambda x: x[0], reverse=True): a stable sort, equal keys
\* keep their order
RECURSIVE SortByScoreDesc(_)
SortByScoreDesc(scored) ==
    IF scored = <<>> THEN <<>>
    ELSE LET init == SortByScoreDesc(SubSeq(scored, 1, Len(scored) - 1))
             last == scored[Len(scored)]
             \* last goes behind every pair whose score is >= its own
             n == Cardinality({i \in 1..Len(init) : init[i][1] >= last[1]})
         IN SubSeq(init, 1, n) \o <<last>> \o SubSeq(init, n + 1, Len(init))

rerank_results(results, qry, int) ==
    LET sorted == SortByScoreDesc(Scored(results, qry, int))
    IN [i \in 1..Len(sorted) |-> sorted[i][2]]

\* xs[:n] for a Python list
SlicePrefix(xs, n) ==
    IF n >= 0 THEN SubSeq(xs, 1, Min(n, Len(xs)))
    ELSE SubSeq(xs, 1, Max(0, Len(xs) + n))

-----------------------------------------------------------------------------
(* Inputs *)

\* injective sequences of at most n elements of S
RECURSIVE SeqsUpTo(_, _)
SeqsUpTo(S, n) ==
    IF n = 0 THEN {<<>>}
    ELSE LET shorter == SeqsUpTo(S, n - 1)
         IN shorter \cup {Append(xs, x) : xs \in {ys \in shorter : Len(ys) = n - 1},
                                          x \in S}

Injective(xs) == \A i, j \in 1..Len(xs) : xs[i] = xs[j] => i = j

\* what one max_marginal_relevance_search(q, k=kk, ...) may return: up to kk
\* distinct passages of the index, in any order
HitLists(kk) == {xs \in SeqsUpTo(Corpus, Min(kk, MaxHits)) : Injective(xs)}

\* phrases the questions of the pure-function specification are built from
Vocabulary ==
    {"What is", "how", "Why", "compare", "git rebase", "git  Merge", "cvs",
     "Git?", "when", "the difference", "show"}

RECURSIVE JoinWords(_)
JoinWords(ws) ==
    IF Len(ws) = 0 THEN ""
    ELSE IF Len(ws) = 1 THEN ws[1]
    ELSE ws[1] \o " " \o JoinWords(Tail(ws))

NamedQuestions ==
    {"What is the difference between git merge and git rebase?",
     "What is Git?",
     "How does git rebase work?",
     "Explain git commit",
     "git rebase",
     "Why use git stash?"}

\* ChatRequest.question is any string: the body of a request is passed on as
\* typed, surrounding whitespace included (main.py:27-29, 82)
PaddedQuestions == {"  Why use git stash? ", "\tHow does git rebase work?"}

Questions ==
    NamedQuestions \cup PaddedQuestions
    \cup {JoinWords(ws) : ws \in UNION {[1..n -> Vocabulary] : n \in 1..MaxWords}}

\* values of k callers pass: the default, 0, negative and small positive ones
KValues == (-1..MaxK) \cup {FINAL_TOP_K}

Threads == 1..NumThreads

\* the n-th index FAISS.load_local constructed, and an index built by a caller
LoadedHandle(n) == <<"loaded", n>>
InjectedHandle == <<"injected", 0>>

-----------------------------------------------------------------------------
(* One retrieve_documents call (retrieve.py:139-158), run by one thread *)

IdleRetrieve ==
    /\ pc = "idle" /\ query = "" /\ k = 0 /\ vs_arg = None /\ vs_local = None
    /\ intent = "" /\ expanded = <<>> /\ qi = 0 /\ searches = <<>> /\ hits = <<>>
    /\ all_results = <<>> /\ unique = <<>> /\ reranked = <<>> /\ result = <<>>
    /\ error = None

IdleQuery ==
    /\ question = "" /\ r_intent = None /\ a_intent = None
    /\ command = None /\ expansion = None

IdleLoad ==
    /\ g_VECTORSTORE = None /\ g_VECTORSTORE_LOCK = None /\ g_EMBEDDINGS = None
    /\ held = [l \in Threads |-> None]
    /\ loads = 0
    /\ tpc = [t \in Threads |-> "idle"]
    /\ tlock = [t \in Threads |-> None]
    /\ tnew = [t \in Threads |-> None]
    /\ tret = [t \in Threads |-> None]

IdleLlm ==
    /\ g_llm_instance = None
    /\ llm_loads = 0
    /\ lpc = [t \in Threads |-> "idle"]
    /\ lnew = [t \in Threads |-> None]
    /\ lret = [t \in Threads |-> None]

\* main.py as imported: VECTORSTORE = None (line 22), no request yet
IdleApi ==
    /\ apc = "init"
    /\ VECTORSTORE = None
    /\ cpc = [t \in Threads |-> "idle"]
    /\ cquestion = [t \in Threads |-> ""]
    /\ cintent = [t \in Threads |-> ""]
    /\ cinvoked = [t \in Threads |-> {}]
    /\ cstatus = [t \in Threads |-> None]
    /\ cdetail = [t \in Threads |-> ""]
    /\ served = 0

Init == IdleRetrieve /\ IdleQuery /\ IdleLoad /\ IdleLlm /\ IdleApi

\* lines 139-143: the call with its arguments, load_vectorstore() run to
\* completion by a single thread (vectorstore.py:120-138), intent, expansion
Call(q, kk, vs) ==
    /\ pc = "idle"
    /\ query' = q /\ k' = kk /\ vs_arg' = vs
    /\ g_VECTORSTORE_LOCK' =
          IF g_VECTORSTORE_LOCK = None THEN Some(1) ELSE g_VECTORSTORE_LOCK
    /\ IF g_VECTORSTORE # None
       THEN UNCHANGED <<g_VECTORSTORE, g_EMBEDDINGS, loads>>
       ELSE /\ g_EMBEDDINGS' = IF g_EMBEDDINGS = None THEN Some("embeddings")
                               ELSE g_EMBEDDINGS
            /\ loads' = loads + 1
            /\ g_VECTORSTORE' = Some(LoadedHandle(loads + 1))
    /\ vs_local' = g_VECTORSTORE'
    /\ intent' = detect_intent(q)
    /\ expanded' = expand_query(q)
    /\ all_results' = <<>> /\ qi' = 0 /\ searches' = <<>>
    /\ pc' = "fetch"
    /\ UNCHANGED <<hits, unique, reranked, result, error>>
    /\ UNCHANGED <<held, tpc, tlock, tnew, tret>>
    /\ UNCHANGED <<queryVars, llmVars, apiVars>>

\* Extend with the new hits put in front of the pool
ExtendInFront(xs, more) == more \o xs

\* all_results.extend(hits) (line 153)
Extend(xs, more) == xs \o more

\* lines 147-153: one iteration of the loop, the index answering found
Search(found) ==
    /\ pc = "fetch" /\ qi < Len(expanded)
    /\ Len(all_results) + Len(found) <= MaxPool
    /\ searches' = Append(searches,
                          [index |-> vs_local, q |-> expanded[qi + 1],
                           k |-> SEARCH_K_PER_QUERY, lambda_mult |-> MMR_LAMBDA])
    /\ hits' = found
    /\ all_results' = Extend(all_results, hits')
    /\ qi' = qi + 1
    /\ UNCHANGED <<pc, query, k, vs_arg, vs_local, intent, expanded,
                   unique, reranked, result, error>>
    /\ UNCHANGED <<queryVars, loadVars, llmVars, apiVars>>

\* The failure is caught inside the loop, which goes on to the next query
SearchFailsSwallowed ==
    /\ pc = "fetch" /\ qi < Len(expanded)
    /\ searches' = Append(searches,
                          [index |-> vs_local, q |-> expanded[qi + 1],
                           k |-> SEARCH_K_PER_QUERY, lambda_mult |-> MMR_LAMBDA])
    /\ error' = Some("IndexUnavailable")
    /\ qi' = qi + 1
    /\ UNCHANGED <<pc, query, k, vs_arg, vs_local, intent, expanded, hits,
                   all_results, unique, reranked, result>>
    /\ UNCHANGED <<queryVars, loadVars, llmVars, apiVars>>

\* lines 147-152 when max_marginal_relevance_search raises: the loop has no
\* try/except, so the exception leaves retrieve_documents at once
SearchFails ==
    /\ pc = "fetch" /\ qi < Len(expanded)
    /\ searches' = Append(searches,
                          [index |-> vs_local, q |-> expanded[qi + 1],
                           k |-> SEARCH_K_PER_QUERY, lambda_mult |-> MMR_LAMBDA])
    /\ error' = Some("IndexUnavailable")
    /\ pc' = "raised"
    /\ UNCHANGED <<query, k, vs_arg, vs_local, intent, expanded, qi, hits,
                   all_results, unique, reranked, result>>
    /\ UNCHANGED <<queryVars, loadVars, llmVars, apiVars>>

\* Finish treating an empty pool as a failure
FinishRaisesOnEmpty ==
    /\ pc = "fetch" /\ qi = Len(expanded)
    /\ IF all_results = <<>>
       THEN /\ pc' = "raised" /\ error' = Some("NoResults")
            /\ UNCHANGED <<unique, reranked, result>>
       ELSE /\ unique' = deduplicate_documents(all_results)
            /\ reranked' = rerank_results(unique', query, intent)
            /\ result' = SlicePrefix(reranked', k)
            /\ pc' = "done" /\ error' = error
    /\ UNCHANGED <<query, k, vs_arg, vs_local, intent, expanded, qi,
                   searches, hits, all_results>>
    /\ UNCHANGED <<queryVars, loadVars, llmVars, apiVars>>

\* lines 155-158 once the loop is over
Finish ==
    /\ pc = "fetch" /\ qi = Len(expanded)
    /\ unique' = deduplicate_documents(all_results)
    /\ reranked' = rerank_results(unique', query, intent)
    /\ result' = SlicePrefix(reranked', k)
    /\ pc' = "done"
    /\ UNCHANGED <<query, k, vs_arg, vs_local, intent, expanded, qi,
                   searches, hits, all_results, error>>
    /\ UNCHANGED <<queryVars, loadVars, llmVars, apiVars>>

\* questions retrieve_documents is called with
RetrieveQuestions ==
    {"What is the difference between git merge and git rebase?",
     "What is Git?", "git rebase", "How does git rebase work?",
     "How to create a new branch?"}

\* vectorstore arguments: the default None, or an index the caller built
VectorstoreArgs == {None, Some(InjectedHandle)}

\* retrieve_documents(q), retrieve_documents(q, k) and
\* retrieve_documents(q, k=top_k, vectorstore=VECTORSTORE) (main.py:84-88)
Next ==
    \/ \E q \in RetrieveQuestions, kk \in KValues, vs \in VectorstoreArgs :
            Call(q, kk, vs)
    \/ \E found \in HitLists(SEARCH_K_PER_QUERY) : Search(found)
    \/ SearchFails
    \/ Finish

Spec == Init /\ [][Next]_vars

-----------------------------------------------------------------------------
(* The query functions applied to one question *)

InitQuery ==
    /\ IdleRetrieve /\ IdleLoad /\ IdleLlm /\ IdleApi
    /\ question \in Questions
    /\ r_intent = None /\ a_intent = None /\ command = None /\ expansion = None

\* retrieve.detect_intent(question), as retrieve_documents and expand_query
\* call it (retrieve.py:55, 142)
DetectIntent ==
    /\ r_intent = None
    /\ r_intent' = Some(detect_intent(question))
    /\ UNCHANGED <<question, a_intent, command, expansion, retrieveVars, loadVars,
                   llmVars, apiVars>>

\* answer.detect_intent(question), as chat and answer_question call it
\* (main.py:82, answer.py:150)
AnswerDetectIntent ==
    /\ a_intent = None
    /\ a_intent' = Some(answer_detect_intent(question))
    /\ UNCHANGED <<question, r_intent, command, expansion, retrieveVars, loadVars,
                   llmVars, apiVars>>

ExtractGitCommand ==
    /\ command = None
    /\ command' = Some(extract_git_command(question))
    /\ UNCHANGED <<question, r_intent, a_intent, expansion, retrieveVars, loadVars,
                   llmVars, apiVars>>

ExpandQuery ==
    /\ expansion = None
    /\ expansion' = Some(expand_query(question))
    /\ UNCHANGED <<question, r_intent, a_intent, command, retrieveVars, loadVars,
                   llmVars, apiVars>>

NextQuery == DetectIntent \/ AnswerDetectIntent \/ ExtractGitCommand \/ ExpandQuery

SpecQuery == InitQuery /\ [][NextQuery]_vars

-----------------------------------------------------------------------------
(* Concurrent callers of load_vectorstore (vectorstore.py:120-138), one     *)
(* action per shared read or write; a lock object is named by the thread   *)
(* that created it                                                         *)

\* thread t moves on to the given line; a load_vectorstore step touches none
\* of the variables of the other components
Goto(t, line) ==
    /\ tpc' = [tpc EXCEPT ![t] = line]
    /\ UNCHANGED <<retrieveVars, queryVars, llmVars, apiVars>>

LoadCall(t) ==
    /\ tpc[t] = "idle"
    /\ Goto(t, "l126")
    /\ UNCHANGED <<g_VECTORSTORE, g_VECTORSTORE_LOCK, g_EMBEDDINGS, held, loads,
                   tlock, tnew, tret>>

\* line 126: if _VECTORSTORE_LOCK is None
L126(t) ==
    /\ tpc[t] = "l126"
    /\ Goto(t, IF g_VECTORSTORE_LOCK = None THEN "l127" ELSE "l128")
    /\ UNCHANGED <<g_VECTORSTORE, g_VECTORSTORE_LOCK, g_EMBEDDINGS, held, loads,
                   tlock, tnew, tret>>

\* line 127: _VECTORSTORE_LOCK = threading.Lock()
L127(t) ==
    /\ tpc[t] = "l127"
    /\ g_VECTORSTORE_LOCK' = Some(t)
    /\ Goto(t, "l128")
    /\ UNCHANGED <<g_VECTORSTORE, g_EMBEDDINGS, held, loads, tlock, tnew, tret>>

\* Line 128 without the early return: every caller goes on to the lock
L128NoFastPath(t) ==
    /\ tpc[t] = "l128"
    /\ Goto(t, "l130")
    /\ UNCHANGED <<g_VECTORSTORE, g_VECTORSTORE_LOCK, g_EMBEDDINGS, held, loads,
                   tlock, tnew, tret>>

\* line 128: if _VECTORSTORE is not None
L128(t) ==
    /\ tpc[t] = "l128"
    /\ Goto(t, IF g_VECTORSTORE # None THEN "l129" ELSE "l130")
    /\ UNCHANGED <<g_VECTORSTORE, g_VECTORSTORE_LOCK, g_EMBEDDINGS, held, loads,
                   tlock, tnew, tret>>

\* line 129: return _VECTORSTORE
L129(t) ==
    /\ tpc[t] = "l129"
    /\ tret' = [tret EXCEPT ![t] = g_VECTORSTORE]
    /\ Goto(t, "done")
    /\ UNCHANGED <<g_VECTORSTORE, g_VECTORSTORE_LOCK, g_EMBEDDINGS, held, loads,
                   tlock, tnew>>

\* line 130: the with statement evaluates the global _VECTORSTORE_LOCK
L130(t) ==
    /\ tpc[t] = "l130"
    /\ tlock' = [tlock EXCEPT ![t] = g_VECTORSTORE_LOCK]
    /\ Goto(t, "acquire")
    /\ UNCHANGED <<g_VECTORSTORE, g_VECTORSTORE_LOCK, g_EMBEDDINGS, held, loads,
                   tnew, tret>>

\* line 130: ... and acquires that lock object, blocking while it is held
Acquire(t) ==
    /\ tpc[t] = "acquire"
    /\ held[tlock[t][1]] = None
    /\ held' = [held EXCEPT ![tlock[t][1]] = Some(t)]
    /\ Goto(t, "l131")
    /\ UNCHANGED <<g_VECTORSTORE, g_VECTORSTORE_LOCK, g_EMBEDDINGS, loads,
                   tlock, tnew, tret>>

\* line 131: if _VECTORSTORE is None
L131(t) ==
    /\ tpc[t] = "l131"
    /\ Goto(t, IF g_VECTORSTORE = None THEN "l132" ELSE "release")
    /\ UNCHANGED <<g_VECTORSTORE, g_VECTORSTORE_LOCK, g_EMBEDDINGS, held, loads,
                   tlock, tnew, tret>>

\* line 132: embeddings = get_embedding_model() (lines 50-54)
L132(t) ==
    /\ tpc[t] = "l132"
    /\ g_EMBEDDINGS' = IF g_EMBEDDINGS = None THEN Some("embeddings") ELSE g_EMBEDDINGS
    /\ Goto(t, "l133")
    /\ UNCHANGED <<g_VECTORSTORE, g_VECTORSTORE_LOCK, held, loads, tlock, tnew, tret>>

\* lines 133-137: FAISS.load_local(...) constructs an index
L133(t) ==
    /\ tpc[t] = "l133"
    /\ loads' = loads + 1
    /\ tnew' = [tnew EXCEPT ![t] = Some(LoadedHandle(loads + 1))]
    /\ Goto(t, "publish")
    /\ UNCHANGED <<g_VECTORSTORE, g_VECTORSTORE_LOCK, g_EMBEDDINGS, held, tlock, tret>>

\* lines 133-137 when FAISS.load_local raises (no index files, unreadable
\* files): nothing is assigned and the exception starts to leave the with block
L133Fails(t) ==
    /\ tpc[t] = "l133"
    /\ Goto(t, "unwind")
    /\ UNCHANGED <<g_VECTORSTORE, g_VECTORSTORE_LOCK, g_EMBEDDINGS, held, loads,
                   tlock, tnew, tret>>

\* The exception leaves load_vectorstore with the lock still held
UnwindKeepsLock(t) ==
    /\ tpc[t] = "unwind"
    /\ Goto(t, "raised")
    /\ UNCHANGED <<g_VECTORSTORE, g_VECTORSTORE_LOCK, g_EMBEDDINGS, held, loads,
                   tlock, tnew, tret>>

\* line 130, __exit__ of the with statement on an exception: the lock object
\* acquired is released and the exception goes on to the caller
Unwind(t) ==
    /\ tpc[t] = "unwind"
    /\ held' = [held EXCEPT ![tlock[t][1]] = None]
    /\ Goto(t, "raised")
    /\ UNCHANGED <<g_VECTORSTORE, g_VECTORSTORE_LOCK, g_EMBEDDINGS, loads,
                   tlock, tnew, tret>>

\* line 133: _VECTORSTORE = <the constructed index>
Publish(t) ==
    /\ tpc[t] = "publish"
    /\ g_VECTORSTORE' = tnew[t]
    /\ Goto(t, "release")
    /\ UNCHANGED <<g_VECTORSTORE_LOCK, g_EMBEDDINGS, held, loads, tlock, tnew, tret>>

\* end of the with block: the lock object acquired at line 130 is released
Release(t) ==
    /\ tpc[t] = "release"
    /\ held' = [held EXCEPT ![tlock[t][1]] = None]
    /\ Goto(t, "l138")
    /\ UNCHANGED <<g_VECTORSTORE, g_VECTORSTORE_LOCK, g_EMBEDDINGS, loads,
                   tlock, tnew, tret>>

\* line 138: return _VECTORSTORE
L138(t) ==
    /\ tpc[t] = "l138"
    /\ tret' = [tret EXCEPT ![t] = g_VECTORSTORE]
    /\ Goto(t, "done")
    /\ UNCHANGED <<g_VECTORSTORE, g_VECTORSTORE_LOCK, g_EMBEDDINGS, held, loads,
                   tlock, tnew>>

NextLoad ==
    \/ \E t \in Threads : LoadCall(t)
    \/ \E t \in Threads : L126(t)
    \/ \E t \in Threads : L127(t)
    \/ \E t \in Threads : L128(t)
    \/ \E t \in Threads : L129(t)
    \/ \E t \in Threads : L130(t)
    \/ \E t \in Threads : Acquire(t)
    \/ \E t \in Threads : L131(t)
    \/ \E t \in Threads : L132(t)
    \/ \E t \in Threads : L133(t)
    \/ \E t \in Threads : L133Fails(t)
    \/ \E t \in Threads : Unwind(t)
    \/ \E t \in Threads : Publish(t)
    \/ \E t \in Threads : Release(t)
    \/ \E t \in Threads : L138(t)

SpecLoad == Init /\ [][NextLoad]_vars

-----------------------------------------------------------------------------
(* Threads calling get_llm (answer.py:18-42), one line at a time; /chat is *)
(* a plain def, so requests run answer_question on pool threads            *)

LlmGoto(t, line) ==
    /\ lpc' = [lpc EXCEPT ![t] = line]
    /\ UNCHANGED <<retrieveVars, queryVars, loadVars, apiVars>>

\* llm = get_llm() (answer.py:154)
GetLlmCall(t) ==
    /\ lpc[t] = "idle"
    /\ LlmGoto(t, "l22")
    /\ UNCHANGED <<g_llm_instance, llm_loads, lnew, lret>>

\* line 22: if _llm_instance is not None
G22(t) ==
    /\ lpc[t] = "l22"
    /\ LlmGoto(t, IF g_llm_instance # None THEN "l23" ELSE "l25")
    /\ UNCHANGED <<g_llm_instance, llm_loads, lnew, lret>>

\* line 23: return _llm_instance
G23(t) ==
    /\ lpc[t] = "l23"
    /\ lret' = [lret EXCEPT ![t] = g_llm_instance]
    /\ LlmGoto(t, "done")
    /\ UNCHANGED <<g_llm_instance, llm_loads, lnew>>

\* line 25: tokenizer = AutoTokenizer.from_pretrained(MODEL_NAME)
G25(t) ==
    /\ lpc[t] = "l25"
    /\ LlmGoto(t, "l26")
    /\ UNCHANGED <<g_llm_instance, llm_loads, lnew, lret>>

\* line 26: model = AutoModelForSeq2SeqLM.from_pretrained(MODEL_NAME)
G26(t) ==
    /\ lpc[t] = "l26"
    /\ LlmGoto(t, "l28")
    /\ UNCHANGED <<g_llm_instance, llm_loads, lnew, lret>>

\* lines 28-29: device, model = model.to(device)
G28(t) ==
    /\ lpc[t] = "l28"
    /\ LlmGoto(t, "l31")
    /\ UNCHANGED <<g_llm_instance, llm_loads, lnew, lret>>

\* lines 31-39: hf_pipeline = pipeline(...) constructs a model pipeline
G31(t) ==
    /\ lpc[t] = "l31"
    /\ llm_loads' = llm_loads + 1
    /\ lnew' = [lnew EXCEPT ![t] = Some(<<"llm", llm_loads + 1>>)]
    /\ LlmGoto(t, "l41")
    /\ UNCHANGED <<g_llm_instance, lret>>

\* line 41: _llm_instance = HuggingFacePipeline(pipeline=hf_pipeline)
G41(t) ==
    /\ lpc[t] = "l41"
    /\ g_llm_instance' = lnew[t]
    /\ LlmGoto(t, "l42")
    /\ UNCHANGED <<llm_loads, lnew, lret>>

\* line 42: return _llm_instance
G42(t) ==
    /\ lpc[t] = "l42"
    /\ lret' = [lret EXCEPT ![t] = g_llm_instance]
    /\ LlmGoto(t, "done")
    /\ UNCHANGED <<g_llm_instance, llm_loads, lnew>>

NextLlm ==
    \/ \E t \in Threads : GetLlmCall(t)
    \/ \E t \in Threads : G22(t)
    \/ \E t \in Threads : G23(t)
    \/ \E t \in Threads : G25(t)
    \/ \E t \in Threads : G26(t)
    \/ \E t \in Threads : G28(t)
    \/ \E t \in Threads : G31(t)
    \/ \E t \in Threads : G41(t)
    \/ \E t \in Threads : G42(t)

SpecLlm == Init /\ [][NextLlm]_vars

-----------------------------------------------------------------------------
(* The API process (main.py): startup_event, then /chat requests served on *)
(* pool threads, one line of chat at a time                                *)

\* questions the requests carry
ChatQuestions == {"What is Git?", "Why use git stash?"}

\* lines 46-58: startup_event; load_vectorstore() (vectorstore.py:120-138)
\* runs alone here and either returns the index or raises, which the
\* except clause turns into VECTORSTORE = None
Startup(ok) ==
    /\ apc = "init"
    /\ g_VECTORSTORE_LOCK' = Some(1)
    /\ g_EMBEDDINGS' = Some("embeddings")
    /\ IF ok
       THEN /\ loads' = loads + 1
            /\ g_VECTORSTORE' = Some(LoadedHandle(loads + 1))
            /\ VECTORSTORE' = g_VECTORSTORE'
       ELSE /\ UNCHANGED <<loads, g_VECTORSTORE>>
            /\ VECTORSTORE' = None
    /\ apc' = "up"
    /\ UNCHANGED <<cpc, cquestion, cintent, cinvoked, cstatus, cdetail, served>>
    /\ UNCHANGED <<held, tpc, tlock, tnew, tret>>
    /\ UNCHANGED <<retrieveVars, queryVars, llmVars>>

ChatGoto(t, line) ==
    /\ cpc' = [cpc EXCEPT ![t] = line]
    /\ UNCHANGED <<retrieveVars, queryVars, loadVars, llmVars>>

\* the response leaves: chat returns or raises HTTPException
Respond(t, status, detail) ==
    /\ cstatus' = [cstatus EXCEPT ![t] = Some(status)]
    /\ cdetail' = [cdetail EXCEPT ![t] = detail]
    /\ served' = served + 1
    /\ ChatGoto(t, "idle")

\* POST /chat arrives (line 73)
ChatBegin(t, q) ==
    /\ apc = "up" /\ cpc[t] = "idle" /\ served < MaxRequests
    /\ cquestion' = [cquestion EXCEPT ![t] = q]
    /\ cintent' = [cintent EXCEPT ![t] = ""]
    /\ cinvoked' = [cinvoked EXCEPT ![t] = {}]
    /\ cstatus' = [cstatus EXCEPT ![t] = None]
    /\ cdetail' = [cdetail EXCEPT ![t] = ""]
    /\ ChatGoto(t, "l75")
    /\ UNCHANGED <<apc, VECTORSTORE, served>>

\* Lines 75-79 obtaining an index when it is missing instead of refusing
Chat75Reloads(t) ==
    /\ cpc[t] = "l75"
    /\ VECTORSTORE' = IF VECTORSTORE = None THEN Some(InjectedHandle)
                      ELSE VECTORSTORE
    /\ ChatGoto(t, "l82")
    /\ UNCHANGED <<apc, cquestion, cintent, cinvoked, cstatus, cdetail, served>>

\* lines 75-79: if VECTORSTORE is None: raise HTTPException(500, ...)
Chat75(t) ==
    /\ cpc[t] = "l75"
    /\ IF VECTORSTORE = None
       THEN /\ Respond(t, 500, "Vectorstore not available.")
            /\ UNCHANGED <<apc, VECTORSTORE, cquestion, cintent, cinvoked>>
       ELSE /\ ChatGoto(t, "l82")
            /\ UNCHANGED <<apc, VECTORSTORE, cquestion, cintent, cinvoked,
                           cstatus, cdetail, served>>

\* line 82: intent = detect_intent(req.question)
Chat82(t) ==
    /\ cpc[t] = "l82"
    /\ cintent' = [cintent EXCEPT ![t] = answer_detect_intent(cquestion[t])]
    /\ ChatGoto(t, "l84")
    /\ UNCHANGED <<apc, VECTORSTORE, cquestion, cinvoked, cstatus, cdetail, served>>

\* lines 84-88: docs = retrieve_documents(...); an exception it raises is
\* answered by the except clause of lines 106-110
Chat84(t, ok) ==
    /\ cpc[t] = "l84"
    /\ cinvoked' = [cinvoked EXCEPT ![t] = @ \cup {"retrieve_documents"}]
    /\ IF ok
       THEN /\ ChatGoto(t, "l90")
            /\ UNCHANGED <<cstatus, cdetail, served>>
       ELSE Respond(t, 500, "Failed to process request")
    /\ UNCHANGED <<apc, VECTORSTORE, cquestion, cintent>>

\* lines 90-104: answer = answer_question(...), sources, the 200 response;
\* an exception is answered by the except clause of lines 106-110
Chat90(t, ok) ==
    /\ cpc[t] = "l90"
    /\ cinvoked' = [cinvoked EXCEPT ![t] = @ \cup {"answer_question"}]
    /\ IF ok
       THEN Respond(t, 200, "")
       ELSE Respond(t, 500, "Failed to process request")
    /\ UNCHANGED <<apc, VECTORSTORE, cquestion, cintent>>

NextApi ==
    \/ \E ok \in BOOLEAN : Startup(ok)
    \/ \E t \in Threads, q \in ChatQuestions : ChatBegin(t, q)
    \/ \E t \in Threads : Chat75(t)
    \/ \E t \in Threads : Chat82(t)
    \/ \E t \in Threads, ok \in BOOLEAN : Chat84(t, ok)
    \/ \E t \in Threads, ok \in BOOLEAN : Chat90(t, ok)

SpecApi == Init /\ [][NextApi]_vars

-----------------------------------------------------------------------------
(* Properties *)

\* the positions of keys that hold the first occurrence of their key
FirstPositions(keys) ==
    {i \in 1..Len(keys) : \A j \in 1..(i - 1) : keys[j] # keys[i]}

\* the n-th smallest element of a set of numbers
NthSmallest(S, n) == CHOOSE x \in S : Cardinality({y \in S : y <= x}) = n

\* xs restricted to the first occurrences of the keys of its elements
\* (keys[i] is the key of xs[i]), in the order of xs
FirstOccurrences(xs, keys) ==
    LET firsts == FirstPositions(keys)
    IN [m \in 1..Cardinality(firsts) |-> xs[NthSmallest(firsts, m)]]

RECURSIVE Flatten(_)
Flatten(xss) == IF xss = <<>> THEN <<>> ELSE Head(xss) \o Flatten(Tail(xss))

\* C1: retrieve_documents(q, k) returns a list of length <= k for every
\* integer k, and the whole reranked pool when it has fewer than k passages.
C1_ResultAtMostK ==
    pc = "done" =>
        /\ Len(result) <= k
        /\ (Len(reranked) < k => result = reranked)

\* C2: deduplicate_documents keeps, for every dedup key, exactly the passage
\* with the smallest pool index, and the survivors keep their pool order.
C2_DedupKeepsEarliest ==
    pc = "done" =>
        unique = FirstOccurrences(all_results,
                    [i \in 1..Len(all_results) |-> DedupKey(all_results[i])])

C2_Witness ==
    /\ pc = "done"
    /\ \E i, j \in 1..Len(all_results) :
          /\ i < j
          /\ DedupKey(all_results[i]) = DedupKey(all_results[j])
          /\ all_results[i] # all_results[j]
    /\ Len(unique) >= 2

\* C3: rerank_results returns a permutation of its input in non-increasing
\* order of computed score, passages of equal score in their input order.
C3_RerankStableDescending ==
    pc = "done" =>
        LET n == Len(unique)
            S == [m \in 1..n |-> Scored(unique, query, intent)[m][1]]
        IN /\ Len(reranked) = n
           /\ \E p \in [1..n -> 1..n] :
                 /\ \A a, b \in 1..n : p[a] = p[b] => a = b
                 /\ \A a \in 1..n : reranked[a] = unique[p[a]]
                 /\ \A a, b \in 1..n :
                       a < b => \/ S[p[a]] > S[p[b]]
                                \/ S[p[a]] = S[p[b]] /\ p[a] < p[b]

C3_Witness ==
    /\ pc = "done"
    /\ \E a, b \in 1..Len(unique) :
          /\ a < b
          /\ Scored(unique, query, intent)[a][1] = Scored(unique, query, intent)[b][1]
    /\ reranked # unique

\* C4: under any interleaving of load_vectorstore callers FAISS.load_local is
\* called at most once and every caller returns the same handle.
C4_ConstructedOnce ==
    /\ loads <= 1
    /\ \A t, u \in Threads :
          tpc[t] = "done" /\ tpc[u] = "done" => tret[t] = tret[u]

\* C5: one search per expanded query, in expansion order, each with
\* k = SEARCH_K_PER_QUERY and lambda = MMR_LAMBDA; the pool is the
\* concatenation of the hits in issue order, nothing removed.
C5_OneSearchPerExpansion ==
    [][/\ pc' \in {"fetch", "done"} =>
            LET e == expanded'
            IN /\ Len(searches') = qi' /\ qi' <= Len(e)
               /\ (pc' = "done" => Len(searches') = Len(e))
               /\ \A i \in 1..Len(searches') :
                     /\ searches'[i].q = e[i]
                     /\ searches'[i].k = SEARCH_K_PER_QUERY
                     /\ searches'[i].lambda_mult = MMR_LAMBDA
       /\ (pc = "idle" => all_results' = <<>>)
       /\ (pc = "fetch" =>
            \/ qi' = qi + 1 /\ all_results' = all_results \o hits'
            \/ qi' = qi /\ pc' \in {"done", "raised"}
                         /\ all_results' = all_results)
      ]_vars

C5_Witness ==
    /\ pc = "done"
    /\ Len(searches) >= 5
    /\ Len(all_results) >= 3
    /\ \E i, j \in 1..Len(all_results) : i + 1 < j /\ all_results[i] = all_results[j]

\* C6: the intent retrieval uses is Comparison for every question that
\* contains "difference", "compare" or "vs", whatever it starts with.
C6_ComparisonFirst ==
    /\ r_intent # None
    /\ AnyIn(Lower(question), {"difference", "compare", "vs"})
    => r_intent = Some("COMPARE")

\* the label of answer.detect_intent that corresponds to a retrieval label
AnswerLabel(i) ==
    [DEFINITION |-> "definition", HOW |-> "procedural", WHY |-> "reasoning",
     COMPARE |-> "comparison", GENERAL |-> "general"][i]

\* C7: retrieve.detect_intent and answer.detect_intent give every question
\* the same classification, up to the correspondence of their labels.
C7_SameClassification ==
    r_intent # None /\ a_intent # None => AnswerLabel(r_intent[1]) = a_intent[1]

\* C8: the first element of expand_query(q) is q itself, unchanged.
C8_LiteralQuestionFirst ==
    expansion # None => Len(expansion[1]) >= 1 /\ expansion[1][1] = question

C8_Witness ==
    /\ expansion # None
    /\ Lower(question) # question
    /\ command # None /\ command[1] # None
    /\ Len(expansion[1]) >= 5

\* C9: expand_query(q) is non-empty and has no two equal strings, each string
\* standing where it first occurs among the strings the rules construct.
C9_ExpansionDistinct ==
    expansion # None =>
        /\ Len(expansion[1]) >= 1
        /\ Injective(expansion[1])
        /\ expansion[1] = FirstOccurrences(expand_query_raw(question),
                                           expand_query_raw(question))

C9_Witness ==
    /\ expansion # None
    /\ Len(expansion[1]) < Len(expand_query_raw(question))

\* C10: deduplicate_documents is idempotent and never lengthens its input.
C10_DedupIdempotent ==
    pc = "done" =>
        /\ deduplicate_documents(unique) = unique
        /\ Len(unique) <= Len(all_results)

C10_Witness ==
    /\ pc = "done"
    /\ Len(unique) < Len(all_results)
    /\ Len(unique) >= 2
    /\ all_results[1] = all_results[Len(all_results)]


\* C11: a search that fails ends the call at once: the exception reaches the
\* caller, the failed search is the last one issued (no retry, no search for
\* a later expanded query) and no list, partial or not, is returned.
C11_SearchFailureFailsFast ==
    error # None =>
        /\ pc = "raised"
        /\ Len(searches) = qi + 1
        /\ qi < Len(expanded)
        /\ searches[qi + 1].q = expanded[qi + 1]
        /\ \A i \in 1..qi : searches[i].q = expanded[i]
        /\ unique = <<>> /\ reranked = <<>> /\ result = <<>>

\* a search fails after earlier searches have already found passages
C11_Witness ==
    /\ pc = "raised" /\ error # None
    /\ qi >= 1 /\ all_results # <<>> /\ qi + 1 < Len(expanded)


\* C12: when the caller passes an index, every search of the call is issued
\* against that index.
C12_SearchesUseInjectedIndex ==
    vs_arg # None => \A i \in 1..Len(searches) : searches[i].index = vs_arg

\* C13: for the merge/rebase difference question the call works with the
\* Comparison intent, and of two passages whose scores are equal apart from
\* the section bonus, the one with section DESCRIPTION or NOTES is ranked
\* above the one with any other section.
C13_ComparisonSectionsFirst ==
    (pc = "done"
       /\ query = "What is the difference between git merge and git rebase?") =>
        /\ intent = "COMPARE"
        /\ LET qtokens == WordTokens(Lower(query))
               base == [i \in 1..Len(unique) |->
                           Score(unique[i], i - 1, qtokens, <<>>)]
               InSet(d) == Upper(OrEmpty(Get(d.metadata, "section")))
                              \in {"DESCRIPTION", "NOTES"}
               Pos(d) == CHOOSE p \in 1..Len(reranked) : reranked[p] = d
           IN \A i, j \in 1..Len(unique) :
                 (base[i] = base[j] /\ InSet(unique[i]) /\ ~InSet(unique[j]))
                    => Pos(unique[i]) < Pos(unique[j])

\* C14: a published handle stays published, and a caller that has not yet
\* passed the test of line 128 when the handle is published only walks the
\* lines 126, 128, 129: it constructs nothing, evaluates and acquires no
\* lock, and returns the handle that is published when it returns.
C14_FastPathLockFree ==
    [][/\ (g_VECTORSTORE # None => g_VECTORSTORE' # None)
       /\ \A t \in Threads :
            (/\ g_VECTORSTORE # None
             /\ tpc[t] \in {"idle", "l126", "l128", "l129"}
             /\ tpc'[t] # tpc[t]) =>
                /\ tpc'[t] \in {"l126", "l128", "l129", "done"}
                /\ held' = held /\ tlock' = tlock /\ loads' = loads
                /\ g_VECTORSTORE_LOCK' = g_VECTORSTORE_LOCK
                /\ (tpc'[t] = "done" =>
                      tret'[t] # None /\ tret'[t] = g_VECTORSTORE)
      ]_vars

\* a caller has returned the handle by the early return, having touched no
\* lock, while the thread that published it still holds the lock
C14_Witness ==
    \E t, u \in Threads :
        /\ tpc[t] = "done" /\ tlock[t] = None
        /\ tret[t] # None /\ tret[t] = g_VECTORSTORE
        /\ tpc[u] = "release" /\ held[tlock[u][1]] = Some(u)

\* s without its leading and trailing whitespace
RECURSIVE Strip(_)
Strip(s) ==
    IF s = "" THEN ""
    ELSE IF Head(s) \in SpaceChars THEN Strip(Tail(s))
    ELSE IF CharAt(s, Len(s)) \in SpaceChars THEN Strip(SubSeq(s, 1, Len(s) - 1))
    ELSE s

\* C15: answer.detect_intent gives every question the intent of its
\* lower-cased, trimmed form, so that questions equal after lower-casing and
\* trimming receive the same intent.
C15_CaseAndWhitespaceInsensitive ==
    a_intent # None =>
        /\ a_intent[1] = answer_detect_intent(Strip(Lower(question)))
        /\ \A q \in NamedQuestions \cup PaddedQuestions :
              Strip(Lower(q)) = Strip(Lower(question))
                 => answer_detect_intent(q) = a_intent[1]

\* C16: a question in which no "git" is followed by whitespace and a
\* lower-case letter or hyphen ("What is Git?" is one) has no command, and
\* its expansion is the question, then the two generic phrases, nothing else.
C16_FallbackPhrases ==
    LET q == Lower(question)
        matched == \E i \in 1..Len(q) : GitMatchAt(q, i)
    IN /\ (command # None /\ ~matched) => command[1] = None
       /\ (command # None /\ question = "What is Git?") => command[1] = None
       /\ (command # None /\ command[1] = None /\ expansion # None) =>
             expansion[1] = <<question, "Git version control system",
                              "Git distributed version control">>

C16_Witness ==
    /\ question = "What is Git?"
    /\ command # None /\ command[1] = None
    /\ expansion # None /\ Len(expansion[1]) = 3

\* C17: a call all of whose searches came back empty ends by returning the
\* empty list: it reaches "done", not "raised", with no error and result = [].
C17_EmptyResultIsNormal ==
    [][(/\ pc = "fetch" /\ qi = Len(expanded)
        /\ all_results = <<>>) =>
            /\ pc' = "done" /\ error' = None
            /\ unique' = <<>> /\ reranked' = <<>> /\ result' = <<>>
      ]_vars

\* such a call, for a positive k and after five empty searches
C17_Witness ==
    /\ pc = "done" /\ Len(searches) >= 5 /\ all_results = <<>>
    /\ k >= 1 /\ result = <<>> /\ error = None

\* C18: whatever the interleaving of the get_llm callers, at most one model
\* pipeline is ever constructed and all callers that have returned hold the
\* same instance.
C18_LlmConstructedOnce ==
    /\ llm_loads <= 1
    /\ \A t, u \in Threads :
          lpc[t] = "done" /\ lpc[u] = "done" => lret[t] = lret[u]

\* C19: with a command s found, the expansion is, duplicates dropped, the
\* question, "git s", "Git Command: s", then "Git Command: s Section: X" for
\* each section X of the priority list of the detected intent, in the order
\* of that list; the generic phrases are not added.
C19_CommandExpansionOrder ==
    (/\ command # None /\ command[1] # None
     /\ r_intent # None /\ expansion # None) =>
        LET s == command[1][1]
            secs == INTENT_SECTION_PRIORITY[r_intent[1]]
            targeted == [i \in 1..Len(secs) |->
                            "Git Command: " \o s \o " Section: " \o secs[i]]
            expected == <<question, "git " \o s, "Git Command: " \o s>>
                           \o targeted
        IN /\ expansion[1] = FirstOccurrences(expected, expected)
           /\ \A i \in 2..Len(expansion[1]) :
                 expansion[1][i] \notin {"Git version control system",
                                         "Git distributed version control"}

\* a procedural question about a command: three targeted variants
C19_Witness ==
    /\ command # None /\ command[1] # None
    /\ r_intent = Some("HOW") /\ expansion # None
    /\ Len(expansion[1]) = 6
    /\ expansion[1][4] = "Git Command: rebase Section: DESCRIPTION"
    /\ expansion[1][6] = "Git Command: rebase Section: EXAMPLES"

\* the whitespace-delimited tokens of s: the maximal runs of characters that are no whitespace
WhitespaceTokens(s) ==
    LET NonSpace == {CharAt(s, j) : j \in 1..Len(s)} \ SpaceChars
    IN {SubSeq(s, i, RunEnd(s, i, NonSpace)) :
           i \in {j \in 1..Len(s) : /\ CharAt(s, j) \in NonSpace
                                    /\ (j = 1 \/ CharAt(s, j - 1) \notin NonSpace)}}

\* C20: the score of a passage holds the command bonus of 10 exactly when a
\* token of the lower-cased question is a whole whitespace-delimited token
\* of the passage's command; a question token that only occurs inside a
\* command token earns nothing.
C20_BonusOnWholeTokenOnly ==
    pc = "done" =>
        LET qtokens == WordTokens(Lower(query))
        IN \A i \in 1..Len(unique) :
              LET cmd == Lower(OrEmpty(Get(unique[i].metadata, "command")))
                  shares == \E t \in qtokens : t \in WhitespaceTokens(cmd)
              IN SubjectBonus(cmd, qtokens) = (IF shares THEN 10 ELSE 0)

\* the chunk a passage was made from: the section of the manual page it
\* belongs to and the position build_chunks gave it
ChunkIdentity(doc) ==
    <<Get(doc.metadata, "command"), Get(doc.metadata, "section"),
      Get(doc.metadata, "section_index"), Get(doc.metadata, "sub_chunk_index")>>

\* C21: passages made from different chunks have different dedup keys, and
\* deduplicate_documents drops no passage of the pool unless it keeps a
\* passage made from the same chunk.
C21_KeyIdentifiesChunk ==
    pc = "done" =>
        /\ \A i, j \in 1..Len(all_results) :
              ChunkIdentity(all_results[i]) # ChunkIdentity(all_results[j])
                 => DedupKey(all_results[i]) # DedupKey(all_results[j])
        /\ \A i \in 1..Len(all_results) :
              \E j \in 1..Len(unique) :
                  ChunkIdentity(unique[j]) = ChunkIdentity(all_results[i])

\* positions of load_vectorstore inside the with block of line 130
InsideWith == {"l131", "l132", "l133", "publish", "release", "unwind"}

\* C22: a failed construction leaves load_vectorstore as an exception of the
\* calling thread, which returns nothing, assigns no handle and holds no lock
\* afterwards; a lock is only ever held by a thread inside the with block, so
\* no thread waits for a lock nobody will release; and a caller that then
\* finds the handle unset goes on to construct the index.
C22_FailedLoadReleasesAndRetries ==
    [][/\ \A t \in Threads :
            /\ (tpc'[t] = "raised" /\ tpc[t] # "raised") =>
                  /\ tpc[t] = "unwind"
                  /\ g_VECTORSTORE' = g_VECTORSTORE
                  /\ tret'[t] = None /\ tnew'[t] = None
            /\ (tpc'[t] = "unwind" /\ tpc[t] # "unwind") =>
                  g_VECTORSTORE' = g_VECTORSTORE
            /\ (tpc[t] = "l128" /\ tpc'[t] # "l128" /\ g_VECTORSTORE = None) =>
                  tpc'[t] = "l130"
            /\ (tpc[t] = "l131" /\ tpc'[t] # "l131" /\ g_VECTORSTORE = None) =>
                  tpc'[t] = "l132"
            /\ (tpc[t] = "l132" /\ tpc'[t] # "l132") => tpc'[t] = "l133"
       /\ \A l \in Threads :
            held'[l] # None =>
                /\ tpc'[held'[l][1]] \in InsideWith
                /\ tlock'[held'[l][1]] = Some(l)
      ]_vars

\* one thread's construction has failed, and a thread that took the same
\* lock after it was released is constructing the index
C22_Witness ==
    \E t, u \in Threads :
        /\ tpc[u] = "raised" /\ tret[u] = None
        /\ tpc[t] = "l133" /\ held[tlock[t][1]] = Some(t)
        /\ tlock[t] = tlock[u]
        /\ g_VECTORSTORE = None

\* C23: once startup_event has run and left VECTORSTORE unset, it stays
\* unset, the index is never loaded again, and every /chat request is
\* answered at line 75 with status 500 and detail "Vectorstore not
\* available." without retrieve_documents or answer_question being called.
C23_FailedStartupRefusesEveryChat ==
    [][(apc = "up" /\ VECTORSTORE = None) =>
          /\ apc' = "up" /\ VECTORSTORE' = None
          /\ loads' = loads /\ g_VECTORSTORE' = g_VECTORSTORE
          /\ \A t \in Threads :
                /\ cinvoked'[t] = {}
                /\ cpc'[t] \in {"idle", "l75"}
                /\ (cpc[t] = "l75" /\ cpc'[t] # "l75") =>
                      /\ cstatus'[t] = Some(500)
                      /\ cdetail'[t] = "Vectorstore not available."
                /\ cstatus'[t] # None =>
                      /\ cstatus'[t] = Some(500)
                      /\ cdetail'[t] = "Vectorstore not available."
      ]_vars

\* after a failed startup, all the requests of the run have been refused,
\* by both threads
C23_Witness ==
    /\ apc = "up" /\ VECTORSTORE = None /\ loads = 0
    /\ served = MaxRequests
    /\ \A t \in Threads :
          /\ cpc[t] = "idle" /\ cstatus[t] = Some(500)
          /\ cdetail[t] = "Vectorstore not available." /\ cinvoked[t] = {}

=============================================================================
